---------------------------- MODULE Spec2Model ----------------------------
(***************************************************************************)
(* The Button (src/the_button/lib.rs): an ink! contract holding a pot.     *)
(* Whoever pressed last is paid the pot once countdown_duration has passed *)
(* without another press; paying out terminates the contract.              *)
(*                                                                         *)
(* The contract's messages are the operators new, press, payout and the    *)
(* get_* queries, written over the storage struct as the source writes     *)
(* them.  The actions wrap one message call each: they feed the message    *)
(* the host environment (caller, block timestamp, transferred value,       *)
(* balance), commit or roll back its effects, and record the call in the   *)
(* history variable last.                                                  *)
(***************************************************************************)
EXTENDS Integers, FiniteSets, TLC

\* Bounds of the model.
MaxTime == 3          \* block timestamps range over 0..MaxTime
MaxDuration == 2      \* countdown_duration given to new ranges over 0..MaxDuration
MaxStake == 2         \* min_raise_balance given to new ranges over 0..MaxStake
InitFunds == 1        \* every account's free balance when the contract is deployed

Accounts == {"alice", "bob", "charlie"}
NoAccount == "none"

\* The outcome of checked_sub on an underflow (Option::None).
None == -1

VARIABLES
    storage,          \* the TheButton struct
    exists,           \* FALSE once terminate_contract has removed the contract
    block_timestamp,  \* env().block_timestamp()
    balance,          \* env().balance(): the pot
    free_balance,     \* the accounts' balances on the ledger
    last,             \* history: the last message call and the state it found
    winner,           \* history: caller of the last press that returned Ok (or of new)
    winner_since,     \* history: block timestamp of that call
    payouts,          \* history: number of payouts that went through
    init_args,        \* history: the arguments new was called with
    accepted,         \* history: sum of the values of the presses that returned Ok
    paid_out,         \* history: sum of what has left the pot
    drained           \* history: a payout went through since the last press that returned Ok

vars == <<storage, exists, block_timestamp, balance, free_balance, last,
          winner, winner_since, payouts, init_args, accepted, paid_out, drained>>

-----------------------------------------------------------------------------
\* u64::checked_sub: None on underflow.
checked_sub(a, b) == IF a >= b THEN a - b ELSE None

\* Mutant of new: the timestamp is not read from the environment.
new_ZeroTimestamp(caller, timestamp, countdown_duration, min_raise_balance) ==
    [last_press_caller |-> caller,
     last_press_timestamp |-> 0,
     countdown_duration |-> countdown_duration,
     min_raise_balance |-> min_raise_balance]

\* TheButton::new, with env().caller() and env().block_timestamp() as arguments.
new(caller, timestamp, countdown_duration, min_raise_balance) ==
    [last_press_caller |-> caller,
     last_press_timestamp |-> timestamp,
     countdown_duration |-> countdown_duration,
     min_raise_balance |-> min_raise_balance]

\* Mutant of press: rejects a stake equal to min_raise_balance.
press_RejectsExactStake(self, caller, timestamp, transferred) ==
    IF transferred <= self.min_raise_balance
    THEN [ret |-> "InsertCoinToContinue", self |-> self]
    ELSE [ret |-> "Ok",
          self |-> [self EXCEPT !.last_press_caller = caller,
                                !.last_press_timestamp = timestamp]]

\* Mutant of press: the countdown is not restarted.
press_KeepsTimestamp(self, caller, timestamp, transferred) ==
    IF transferred < self.min_raise_balance
    THEN [ret |-> "InsertCoinToContinue", self |-> self]
    ELSE [ret |-> "Ok", self |-> [self EXCEPT !.last_press_caller = caller]]

\* Mutant of press: the caller is stored before the stake is checked.
press_WritesBeforeCheck(self, caller, timestamp, transferred) ==
    IF transferred < self.min_raise_balance
    THEN [ret |-> "InsertCoinToContinue",
          self |-> [self EXCEPT !.last_press_caller = caller]]
    ELSE [ret |-> "Ok",
          self |-> [self EXCEPT !.last_press_caller = caller,
                                !.last_press_timestamp = timestamp]]

\* Mutant of press: the stake paid becomes the new minimum.
press_RaisesMinimum(self, caller, timestamp, transferred) ==
    IF transferred < self.min_raise_balance
    THEN [ret |-> "InsertCoinToContinue", self |-> self]
    ELSE [ret |-> "Ok",
          self |-> [self EXCEPT !.last_press_caller = caller,
                                !.last_press_timestamp = timestamp,
                                !.min_raise_balance = transferred]]

\* Mutant of press: the time the countdown ends is stored, not the time of the press.
press_StoresDeadline(self, caller, timestamp, transferred) ==
    IF transferred < self.min_raise_balance
    THEN [ret |-> "InsertCoinToContinue", self |-> self]
    ELSE [ret |-> "Ok",
          self |-> [self EXCEPT !.last_press_caller = caller,
                                !.last_press_timestamp =
                                    timestamp + self.countdown_duration]]

\* Mutant of press: once the countdown has passed the button is closed.
press_ClosedOncePassed(self, caller, timestamp, transferred) ==
    IF transferred < self.min_raise_balance
    THEN [ret |-> "InsertCoinToContinue", self |-> self]
    ELSE IF timestamp - self.last_press_timestamp >= self.countdown_duration
    THEN [ret |-> "CountdownPassed", self |-> self]
    ELSE [ret |-> "Ok",
          self |-> [self EXCEPT !.last_press_caller = caller,
                                !.last_press_timestamp = timestamp]]

\* TheButton::press.  The result is the value returned and the storage the
\* message leaves behind.
press(self, caller, timestamp, transferred) ==
    IF transferred < self.min_raise_balance
    THEN [ret |-> "InsertCoinToContinue", self |-> self]
    ELSE [ret |-> "Ok",
          self |-> [self EXCEPT !.last_press_caller = caller,
                                !.last_press_timestamp = timestamp]]

\* Mutant of payout: the boundary time_passed = countdown_duration is refused.
payout_StrictlyLater(self, caller, now, contract_balance) ==
    LET time_passed == checked_sub(now, self.last_press_timestamp) IN
    IF time_passed = None
    THEN [ret |-> "Panic", transfer_to |-> NoAccount, amount |-> 0,
          terminate |-> FALSE, beneficiary |-> NoAccount]
    ELSE IF time_passed <= self.countdown_duration
    THEN [ret |-> "CountdownNotPassed", transfer_to |-> NoAccount, amount |-> 0,
          terminate |-> FALSE, beneficiary |-> NoAccount]
    ELSE [ret |-> "Terminated", transfer_to |-> self.last_press_caller,
          amount |-> contract_balance, terminate |-> TRUE, beneficiary |-> caller]

\* Mutant of payout: the countdown is not checked.
payout_NoCountdown(self, caller, now, contract_balance) ==
    LET time_passed == checked_sub(now, self.last_press_timestamp) IN
    IF time_passed = None
    THEN [ret |-> "Panic", transfer_to |-> NoAccount, amount |-> 0,
          terminate |-> FALSE, beneficiary |-> NoAccount]
    ELSE [ret |-> "Terminated", transfer_to |-> self.last_press_caller,
          amount |-> contract_balance, terminate |-> TRUE, beneficiary |-> caller]

\* Mutant of payout: the pot goes to the caller, as the comment at the transfer says.
payout_PaysCaller(self, caller, now, contract_balance) ==
    LET time_passed == checked_sub(now, self.last_press_timestamp) IN
    IF time_passed = None
    THEN [ret |-> "Panic", transfer_to |-> NoAccount, amount |-> 0,
          terminate |-> FALSE, beneficiary |-> NoAccount]
    ELSE IF time_passed < self.countdown_duration
    THEN [ret |-> "CountdownNotPassed", transfer_to |-> NoAccount, amount |-> 0,
          terminate |-> FALSE, beneficiary |-> NoAccount]
    ELSE [ret |-> "Terminated", transfer_to |-> caller,
          amount |-> contract_balance, terminate |-> TRUE, beneficiary |-> caller]

\* Mutant of payout: the reward is paid and Ok returned, without terminate_contract.
payout_StaysAlive(self, caller, now, contract_balance) ==
    LET time_passed == checked_sub(now, self.last_press_timestamp) IN
    IF time_passed = None
    THEN [ret |-> "Panic", transfer_to |-> NoAccount, amount |-> 0,
          terminate |-> FALSE, beneficiary |-> NoAccount]
    ELSE IF time_passed < self.countdown_duration
    THEN [ret |-> "CountdownNotPassed", transfer_to |-> NoAccount, amount |-> 0,
          terminate |-> FALSE, beneficiary |-> NoAccount]
    ELSE [ret |-> "Ok", transfer_to |-> self.last_press_caller,
          amount |-> contract_balance, terminate |-> FALSE, beneficiary |-> NoAccount]

\* TheButton::payout.  ret is how the call ends: "Panic" when the unwrap of
\* checked_sub aborts it, the Err returned, or "Terminated" when it reaches
\* terminate_contract, which never returns.  transfer_to and amount are the
\* env().transfer it asks for, beneficiary the account terminate_contract names.
payout(self, caller, now, contract_balance) ==
    LET time_passed == checked_sub(now, self.last_press_timestamp) IN
    IF time_passed = None
    THEN [ret |-> "Panic", transfer_to |-> NoAccount, amount |-> 0,
          terminate |-> FALSE, beneficiary |-> NoAccount]
    ELSE IF time_passed < self.countdown_duration
    THEN [ret |-> "CountdownNotPassed", transfer_to |-> NoAccount, amount |-> 0,
          terminate |-> FALSE, beneficiary |-> NoAccount]
    ELSE [ret |-> "Terminated", transfer_to |-> self.last_press_caller,
          amount |-> contract_balance, terminate |-> TRUE, beneficiary |-> caller]

\* Mutant of get_countdown: the time passed is not taken off.
get_countdown_NoSubtract(self, now) ==
    LET time_passed == checked_sub(now, self.last_press_timestamp) IN
    IF time_passed = None THEN None
    ELSE IF time_passed >= self.countdown_duration THEN 0
    ELSE self.countdown_duration

\* Mutant of get_countdown: the second subtraction has its operands swapped.
get_countdown_SwappedSub(self, now) ==
    LET time_passed == checked_sub(now, self.last_press_timestamp) IN
    IF time_passed = None THEN None
    ELSE IF time_passed >= self.countdown_duration THEN 0
    ELSE checked_sub(time_passed, self.countdown_duration)

\* Mutant of get_countdown: the time passed is returned, not the time left.
get_countdown_CountsUp(self, now) ==
    LET time_passed == checked_sub(now, self.last_press_timestamp) IN
    IF time_passed = None THEN None
    ELSE IF time_passed >= self.countdown_duration THEN 0
    ELSE time_passed

\* TheButton::get_countdown; None stands for the panic of the first unwrap.
get_countdown(self, now) ==
    LET time_passed == checked_sub(now, self.last_press_timestamp) IN
    IF time_passed = None THEN None
    ELSE IF time_passed >= self.countdown_duration THEN 0
    ELSE checked_sub(self.countdown_duration, time_passed)

\* TheButton::get_last_press_caller
get_last_press_caller(self) == self.last_press_caller

\* TheButton::get_last_press_timestamp
get_last_press_timestamp(self) == self.last_press_timestamp

\* TheButton::get_balance
get_balance(contract_balance) == contract_balance

-----------------------------------------------------------------------------
\* The ledger: n units more on account a.
Credit(f, a, n) == [f EXCEPT ![a] = @ + n]

\* The record of one message call: the message, the environment it ran in,
\* the state it found and how it ended.
Call(op, caller, transferred, ret, out, out_account) ==
    [op |-> op, caller |-> caller, transferred |-> transferred,
     at |-> block_timestamp, active |-> exists, ret |-> ret,
     out |-> out, out_account |-> out_account,
     pre_storage |-> storage, pre_balance |-> balance, pre_free |-> free_balance,
     pre_drained |-> drained]

\* Deployment: new runs with the deployer as caller; the constructor is not
\* payable, so the pot starts empty.
Init ==
    \E caller \in Accounts, timestamp \in 0..MaxTime,
       cd \in 0..MaxDuration, mrb \in 0..MaxStake :
        /\ storage = new(caller, timestamp, cd, mrb)
        /\ exists = TRUE
        /\ block_timestamp = timestamp
        /\ balance = 0
        /\ free_balance = [a \in Accounts |-> InitFunds]
        /\ last = [op |-> "new", caller |-> caller, transferred |-> 0,
                   at |-> timestamp, active |-> TRUE, ret |-> "Ok",
                   out |-> 0, out_account |-> NoAccount,
                   pre_storage |-> new(caller, timestamp, cd, mrb),
                   pre_balance |-> 0,
                   pre_free |-> [a \in Accounts |-> InitFunds],
                   pre_drained |-> FALSE]
        /\ winner = caller
        /\ winner_since = timestamp
        /\ payouts = 0
        /\ init_args = [countdown_duration |-> cd, min_raise_balance |-> mrb]
        /\ accepted = 0
        /\ paid_out = 0
        /\ drained = FALSE

\* A call of a message of a contract that terminate_contract has removed:
\* the host finds no contract and nothing runs.
NotFound(op, caller, transferred) ==
    /\ ~exists
    /\ last' = Call(op, caller, transferred, "ContractNotFound", 0, NoAccount)
    /\ UNCHANGED <<storage, exists, block_timestamp, balance, free_balance,
                   winner, winner_since, payouts, init_args,
                   accepted, paid_out, drained>>

\* Mutant of Press: the value attached to a refused press stays in the pot.
Press_KeepsRefusedStake(caller, transferred) ==
    /\ transferred <= free_balance[caller]
    /\ exists
    /\ LET r == press(storage, caller, block_timestamp, transferred) IN
       /\ storage' = r.self
       /\ last' = Call("press", caller, transferred, r.ret, 0, NoAccount)
       /\ balance' = balance + transferred
       /\ free_balance' = Credit(free_balance, caller, -transferred)
       /\ IF r.ret = "Ok"
          THEN /\ winner' = caller
               /\ winner_since' = block_timestamp
               /\ accepted' = accepted + transferred
               /\ drained' = FALSE
          ELSE UNCHANGED <<winner, winner_since, accepted, drained>>
    /\ UNCHANGED <<exists, block_timestamp, payouts, init_args, paid_out>>

\* A call of press by caller with value transferred attached.  The host
\* credits the value to the contract for the call and takes it back when the
\* message returns Err; storage is what the message leaves in self.
Press(caller, transferred) ==
    /\ transferred <= free_balance[caller]
    /\ \/ NotFound("press", caller, transferred)
       \/ /\ exists
          /\ LET r == press(storage, caller, block_timestamp, transferred) IN
             /\ storage' = r.self
             /\ last' = Call("press", caller, transferred, r.ret, 0, NoAccount)
             /\ IF r.ret = "Ok"
                THEN /\ balance' = balance + transferred
                     /\ free_balance' = Credit(free_balance, caller, -transferred)
                     /\ winner' = caller
                     /\ winner_since' = block_timestamp
                     /\ accepted' = accepted + transferred
                     /\ drained' = FALSE
                ELSE UNCHANGED <<balance, free_balance, winner, winner_since,
                                 accepted, drained>>
          /\ UNCHANGED <<exists, block_timestamp, payouts, init_args, paid_out>>

\* A call of payout by caller.  A panic or an Err leaves everything as it
\* was.  Otherwise the ledger moves the amount asked for to transfer_to
\* (payout does not look at the transfer's result; the ledger is taken to
\* carry out a transfer of the balance it has just reported), and
\* terminate_contract removes the contract and sends what is left of its
\* balance to the beneficiary.  The storage of a removed contract is kept
\* here as it was; no message reads it any more.
Payout(caller) ==
    \/ NotFound("payout", caller, 0)
    \/ /\ exists
       /\ LET r == payout(storage, caller, block_timestamp, balance) IN
          /\ last' = Call("payout", caller, 0, r.ret, 0, NoAccount)
          /\ IF r.ret \in {"Panic", "CountdownNotPassed"}
             THEN UNCHANGED <<exists, balance, free_balance, payouts,
                              paid_out, drained>>
             ELSE /\ exists' = ~r.terminate
                  /\ balance' = IF r.terminate THEN 0 ELSE balance - r.amount
                  /\ free_balance' =
                        IF r.terminate
                        THEN Credit(Credit(free_balance, r.transfer_to, r.amount),
                                    r.beneficiary, balance - r.amount)
                        ELSE Credit(free_balance, r.transfer_to, r.amount)
                  /\ payouts' = IF payouts < 2 THEN payouts + 1 ELSE payouts
                  /\ paid_out' = paid_out + IF r.terminate THEN balance ELSE r.amount
                  /\ drained' = TRUE
       /\ UNCHANGED <<storage, block_timestamp, winner, winner_since, init_args,
                      accepted>>

\* A call of get_countdown.
GetCountdown ==
    \/ NotFound("get_countdown", NoAccount, 0)
    \/ /\ exists
       /\ LET c == get_countdown(storage, block_timestamp) IN
          last' = IF c = None
                  THEN Call("get_countdown", NoAccount, 0, "Panic", 0, NoAccount)
                  ELSE Call("get_countdown", NoAccount, 0, "Ok", c, NoAccount)
       /\ UNCHANGED <<storage, exists, block_timestamp, balance, free_balance,
                      winner, winner_since, payouts, init_args,
                   accepted, paid_out, drained>>

\* A call of get_last_press_caller.
GetLastPressCaller ==
    \/ NotFound("get_last_press_caller", NoAccount, 0)
    \/ /\ exists
       /\ last' = Call("get_last_press_caller", NoAccount, 0, "Ok", 0,
                       get_last_press_caller(storage))
       /\ UNCHANGED <<storage, exists, block_timestamp, balance, free_balance,
                      winner, winner_since, payouts, init_args,
                   accepted, paid_out, drained>>

\* A call of get_last_press_timestamp.
GetLastPressTimestamp ==
    \/ NotFound("get_last_press_timestamp", NoAccount, 0)
    \/ /\ exists
       /\ last' = Call("get_last_press_timestamp", NoAccount, 0, "Ok",
                       get_last_press_timestamp(storage), NoAccount)
       /\ UNCHANGED <<storage, exists, block_timestamp, balance, free_balance,
                      winner, winner_since, payouts, init_args,
                   accepted, paid_out, drained>>

\* A call of get_balance.
GetBalance ==
    \/ NotFound("get_balance", NoAccount, 0)
    \/ /\ exists
       /\ last' = Call("get_balance", NoAccount, 0, "Ok", get_balance(balance),
                       NoAccount)
       /\ UNCHANGED <<storage, exists, block_timestamp, balance, free_balance,
                      winner, winner_since, payouts, init_args,
                   accepted, paid_out, drained>>

\* The chain produces a block: the block timestamp grows.
Tick ==
    /\ block_timestamp < MaxTime
    /\ block_timestamp' = block_timestamp + 1
    /\ UNCHANGED <<storage, exists, balance, free_balance, last,
                   winner, winner_since, payouts, init_args,
                   accepted, paid_out, drained>>

\* The off-chain test environment's set_block_timestamp: any timestamp,
\* earlier ones included.
SetBlockTimestamp(timestamp) ==
    /\ timestamp # block_timestamp
    /\ block_timestamp' = timestamp
    /\ UNCHANGED <<storage, exists, balance, free_balance, last,
                   winner, winner_since, payouts, init_args,
                   accepted, paid_out, drained>>

Calls ==
    \/ \E caller \in Accounts : \E transferred \in 0..free_balance[caller] :
          Press(caller, transferred)
    \/ \E caller \in Accounts : Payout(caller)
    \/ GetCountdown
    \/ GetLastPressCaller
    \/ GetLastPressTimestamp
    \/ GetBalance

\* On chain: the block timestamp never goes back.
Next == Calls \/ Tick

Spec == Init /\ [][Next]_vars

\* In the off-chain test environment the test sets the timestamp at will.
NextSkew == Calls \/ Tick \/ \E timestamp \in 0..MaxTime : SetBlockTimestamp(timestamp)

SpecSkew == Init /\ [][NextSkew]_vars

-----------------------------------------------------------------------------
\* Vocabulary of the properties, over the record of the last call.

\* The last call was op, made while the contract existed.
Called(op) == last.op = op /\ last.active

\* Clock.now() - last_press_time as the last call found it.
Elapsed == last.at - last.pre_storage.last_press_timestamp

\* The last call was a payout that went through.
PayoutSucceeded ==
    /\ Called("payout")
    /\ last.ret \notin {"Panic", "CountdownNotPassed", "ClockSkew"}

\* The last call was a press or a payout that failed.
CallFailed ==
    /\ Called("press") \/ Called("payout")
    /\ last.ret \in {"Panic", "CountdownNotPassed", "InsertCoinToContinue"}

-----------------------------------------------------------------------------
\* C1: a payout of the active contract fails with CountdownNotPassed when
\* now - last_press_time < countdown_duration and succeeds when it is >=
\* (the boundary included); it ends in no other way.
C1_PayoutOutcome ==
    Called("payout") =>
        /\ last.ret \in {"CountdownNotPassed", "Terminated"}
        /\ Elapsed < last.pre_storage.countdown_duration
              => last.ret = "CountdownNotPassed"
        /\ Elapsed >= last.pre_storage.countdown_duration
              => PayoutSucceeded /\ ~exists

\* C1 witness: a payout at exactly countdown_duration after the last press.
C1_Witness ==
    /\ Called("payout")
    /\ last.pre_storage.countdown_duration > 0
    /\ Elapsed = last.pre_storage.countdown_duration
    /\ last.ret = "Terminated"

C4_PressStake ==
    Called("press") =>
        IF last.transferred >= last.pre_storage.min_raise_balance
        THEN /\ last.ret = "Ok"
             /\ get_last_press_caller(storage) = last.caller
             /\ get_last_press_timestamp(storage) = last.at
        ELSE /\ last.ret = "InsertCoinToContinue"
             /\ get_last_press_caller(storage) = last.pre_storage.last_press_caller
             /\ get_last_press_timestamp(storage) =
                   last.pre_storage.last_press_timestamp

\* C4 witness: a press with exactly min_raise_balance by a new holder.
C4_Witness ==
    /\ Called("press")
    /\ last.pre_storage.min_raise_balance > 0
    /\ last.transferred = last.pre_storage.min_raise_balance
    /\ last.caller # last.pre_storage.last_press_caller
    /\ last.at > last.pre_storage.last_press_timestamp
    /\ last.ret = "Ok"

\* C5: right after a successful press, at the same block timestamp,
\* get_countdown() is countdown_duration.
C5_PressResetsCountdown ==
    (Called("press") /\ last.ret = "Ok" /\ block_timestamp = last.at) =>
        get_countdown(storage, block_timestamp) = init_args.countdown_duration

\* C5 witness: a successful press after the countdown had run out.
C5_Witness ==
    /\ Called("press") /\ last.ret = "Ok" /\ block_timestamp = last.at
    /\ init_args.countdown_duration > 0
    /\ Elapsed >= init_args.countdown_duration

\* C6: a payout that goes through terminates the contract, and a terminated
\* contract stays so: later calls run nothing, nothing is written or moved
\* any more, and at most one payout ever goes through.
C6_TerminatedAbsorbing ==
    [][/\ payouts' > payouts => ~exists'
       /\ payouts' <= 1
       /\ ~exists =>
             /\ ~exists'
             /\ storage' = storage
             /\ balance' = balance
             /\ free_balance' = free_balance
             /\ payouts' = payouts
             /\ last' # last => last'.ret = "ContractNotFound" /\ ~last'.active
      ]_vars

\* C6 witness: a press attempted on the terminated contract.
C6_Witness ==
    /\ ~exists
    /\ payouts = 1
    /\ last.op = "press"
    /\ last.transferred > 0
    /\ last.ret = "ContractNotFound"

\* C7: right after construction get_countdown() is countdown_duration, the
\* holder is the deployer and the timestamp is that of the deployment.
C7_Construction ==
    (last.op = "new" /\ block_timestamp = last.at) =>
        /\ get_countdown(storage, block_timestamp) = init_args.countdown_duration
        /\ get_last_press_caller(storage) = last.caller
        /\ get_last_press_timestamp(storage) = last.at

\* C7 witness: a contract deployed at a later block with a real countdown.
C7_Witness ==
    /\ last.op = "new" /\ block_timestamp = last.at
    /\ last.at > 0
    /\ init_args.countdown_duration > 0

\* C8: a press or payout that fails leaves the storage as it found it.
C8_FailureWritesNothing ==
    CallFailed => storage = last.pre_storage /\ exists

\* C8 witness: a press by another account, at a later block, is refused.
C8_Witness ==
    /\ CallFailed
    /\ last.op = "press"
    /\ last.caller # last.pre_storage.last_press_caller
    /\ last.at > last.pre_storage.last_press_timestamp

\* C9: a payout called with now < last_press_time returns the error value
\* ClockSkew.
C9_ClockSkewReturned ==
    (Called("payout") /\ last.at < last.pre_storage.last_press_timestamp) =>
        last.ret = "ClockSkew"

\* C10: countdown_duration and min_raise_balance are in every state what new
\* was given.
C10_ParametersFixed ==
    /\ storage.countdown_duration = init_args.countdown_duration
    /\ storage.min_raise_balance = init_args.min_raise_balance

\* C10 witness: a press by another account paying more than the minimum.
C10_Witness ==
    /\ Called("press") /\ last.ret = "Ok"
    /\ last.transferred > init_args.min_raise_balance
    /\ last.caller # last.pre_storage.last_press_caller

C12_CountdownValue ==
    (Called("get_countdown") /\ Elapsed >= 0) =>
        /\ last.ret = "Ok"
        /\ last.out = IF Elapsed >= last.pre_storage.countdown_duration
                      THEN 0
                      ELSE last.pre_storage.countdown_duration - Elapsed
        /\ storage = last.pre_storage
        /\ balance = last.pre_balance
        /\ free_balance = last.pre_free
        /\ exists

\* C12 witness: get_countdown() called part of the way through the countdown.
C12_Witness ==
    /\ Called("get_countdown")
    /\ Elapsed > 0
    /\ Elapsed < last.pre_storage.countdown_duration
    /\ last.out = last.pre_storage.countdown_duration - Elapsed

\* C14: with a clock that never goes back, last_press_timestamp is never
\* later than the current block timestamp.
C14_NoFutureTimestamp ==
    get_last_press_timestamp(storage) <= block_timestamp

\* C14 witness: time has moved on since a press at a later block than the
\* deployment.
C14_Witness ==
    /\ Called("press") /\ last.ret = "Ok"
    /\ last.at > last.pre_storage.last_press_timestamp
    /\ get_last_press_timestamp(storage) < block_timestamp

\* C15: a press made after the countdown has passed, before any payout, is
\* accepted like any other: the caller becomes the holder and the countdown
\* starts again, so that the payout that would have gone through just before
\* the press is refused with CountdownNotPassed just after it.
C15_PressAfterCountdown ==
    (/\ Called("press")
     /\ last.transferred >= last.pre_storage.min_raise_balance
     /\ last.pre_storage.countdown_duration > 0
     /\ Elapsed >= last.pre_storage.countdown_duration
     /\ block_timestamp = last.at) =>
        /\ last.ret = "Ok"
        /\ get_last_press_caller(storage) = last.caller
        /\ winner = last.caller
        /\ \A c \in Accounts :
              /\ payout(last.pre_storage, c, last.at, last.pre_balance).ret
                    = "Terminated"
              /\ payout(storage, c, block_timestamp, balance).ret
                    = "CountdownNotPassed"

\* C15 witness: another account presses after the holder's countdown has passed.
C15_Witness ==
    /\ Called("press") /\ last.ret = "Ok"
    /\ last.pre_storage.countdown_duration > 0
    /\ Elapsed > last.pre_storage.countdown_duration
    /\ last.caller # last.pre_storage.last_press_caller
    /\ last.pre_balance > 0
    /\ block_timestamp = last.at

\* C16: while the contract exists, at every block timestamp, payout goes
\* through exactly when get_countdown() is 0; with countdown_duration = 0
\* both hold at once after new and after any press.
C16_PayoutIffCountdownZero ==
    /\ exists =>
          \A c \in Accounts :
              (payout(storage, c, block_timestamp, balance).ret = "Terminated")
                 <=> (get_countdown(storage, block_timestamp) = 0)
    /\ Called("payout") =>
          (PayoutSucceeded <=> get_countdown(last.pre_storage, last.at) = 0)
    /\ (exists /\ init_args.countdown_duration = 0) =>
          get_countdown(storage, block_timestamp) = 0

\* C16 witness: with countdown_duration = 0, a payout at the very block of a press.
C16_Witness ==
    /\ PayoutSucceeded
    /\ init_args.countdown_duration = 0
    /\ Elapsed = 0
    /\ last.pre_balance > 0

\* C17: with a clock that never goes back, no call of payout or
\* get_countdown panics: now.checked_sub(last_press_timestamp) is Some, and
\* get_countdown takes countdown_duration.checked_sub(time_passed) only with
\* time_passed < countdown_duration.
C17_NoArithmeticPanic ==
    /\ (Called("payout") \/ Called("get_countdown")) => last.ret # "Panic"
    /\ exists =>
          /\ checked_sub(block_timestamp, storage.last_press_timestamp) # None
          /\ get_countdown(storage, block_timestamp) # None
          /\ \A c \in Accounts :
                payout(storage, c, block_timestamp, balance).ret # "Panic"

\* C17 witness: get_countdown() returns from its second subtraction.
C17_Witness ==
    /\ Called("get_countdown")
    /\ last.ret = "Ok"
    /\ last.out > 0
    /\ last.out < last.pre_storage.countdown_duration

\* C18: while the contract exists get_countdown() lies in
\* 0..countdown_duration, and from one state to the next it grows only by a
\* press that returned Ok.
C18_CountdownOnlyFalls ==
    [][(exists /\ exists') =>
          /\ get_countdown(storage', block_timestamp')
                \in 0..init_args.countdown_duration
          /\ get_countdown(storage', block_timestamp')
                > get_countdown(storage, block_timestamp)
                => /\ last'.op = "press"
                   /\ last'.ret = "Ok"
                   /\ last'.at = block_timestamp'
                   /\ winner_since' = block_timestamp'
      ]_vars

\* C18 witness: a press that returned Ok has raised get_countdown().
C18_Witness ==
    /\ Called("press") /\ last.ret = "Ok"
    /\ block_timestamp = last.at
    /\ get_countdown(last.pre_storage, last.at) > 0
    /\ get_countdown(last.pre_storage, last.at)
          < get_countdown(storage, block_timestamp)

-----------------------------------------------------------------------------
\* The variant of the contract that stays alive after a payout (variant A of
\* the specification, terminate_on_payout not set).

\* Mutant of payout_A: a payout of an empty pot is refused.
payout_A_RefusesEmptyPot(self, caller, now, contract_balance) ==
    LET time_passed == checked_sub(now, self.last_press_timestamp) IN
    IF time_passed = None
    THEN [ret |-> "ClockSkew", transfer_to |-> NoAccount, amount |-> 0,
          terminate |-> FALSE, beneficiary |-> NoAccount]
    ELSE IF time_passed < self.countdown_duration \/ contract_balance = 0
    THEN [ret |-> "CountdownNotPassed", transfer_to |-> NoAccount, amount |-> 0,
          terminate |-> FALSE, beneficiary |-> NoAccount]
    ELSE [ret |-> "Ok", transfer_to |-> self.last_press_caller,
          amount |-> contract_balance, terminate |-> FALSE, beneficiary |-> NoAccount]

\* payout without termination: ClockSkew on a clock that went back,
\* CountdownNotPassed before the countdown has passed, otherwise the whole
\* balance is transferred to the holder and Ok returned.
payout_A(self, caller, now, contract_balance) ==
    LET time_passed == checked_sub(now, self.last_press_timestamp) IN
    IF time_passed = None
    THEN [ret |-> "ClockSkew", transfer_to |-> NoAccount, amount |-> 0,
          terminate |-> FALSE, beneficiary |-> NoAccount]
    ELSE IF time_passed < self.countdown_duration
    THEN [ret |-> "CountdownNotPassed", transfer_to |-> NoAccount, amount |-> 0,
          terminate |-> FALSE, beneficiary |-> NoAccount]
    ELSE [ret |-> "Ok", transfer_to |-> self.last_press_caller,
          amount |-> contract_balance, terminate |-> FALSE, beneficiary |-> NoAccount]

\* A call of payout of the variant that stays alive: holder and
\* last_press_timestamp are left as they are.
PayoutA(caller) ==
    /\ exists
    /\ LET r == payout_A(storage, caller, block_timestamp, balance) IN
       /\ last' = Call("payout", caller, 0, r.ret, 0, NoAccount)
       /\ IF r.ret \in {"ClockSkew", "CountdownNotPassed"}
          THEN UNCHANGED <<balance, free_balance, payouts, paid_out, drained>>
          ELSE /\ balance' = balance - r.amount
               /\ free_balance' = Credit(free_balance, r.transfer_to, r.amount)
               /\ payouts' = IF payouts < 2 THEN payouts + 1 ELSE payouts
               /\ paid_out' = paid_out + r.amount
               /\ drained' = TRUE
    /\ UNCHANGED <<storage, exists, block_timestamp, winner, winner_since,
                   init_args, accepted>>

\* The most the presses of one run stake in all (a pot paid out can be staked
\* again, so the sum would grow without end).
MaxAccepted == InitFunds

\* press and the queries are those of the contract above, which exists
\* throughout.
PressA(caller, transferred) ==
    /\ exists
    /\ accepted + transferred <= MaxAccepted
    /\ Press(caller, transferred)

QueryA ==
    exists /\ (GetCountdown \/ GetLastPressCaller \/ GetLastPressTimestamp \/ GetBalance)

NextA ==
    \/ \E caller \in Accounts : \E transferred \in 0..free_balance[caller] :
          PressA(caller, transferred)
    \/ \E caller \in Accounts : PayoutA(caller)
    \/ QueryA
    \/ Tick

SpecA == Init /\ [][NextA]_vars

\* C13: in the variant that stays alive, a payout that follows a payout that
\* went through, with no press accepted in between, goes through as well,
\* transfers nothing and leaves holder and last_press_timestamp as they were.
C13_RepeatPayoutIsEmpty ==
    (Called("payout") /\ last.pre_drained) =>
        /\ last.ret = "Ok"
        /\ last.pre_balance = 0
        /\ balance = 0
        /\ free_balance = last.pre_free
        /\ storage = last.pre_storage
        /\ exists

\* C13 witness: a second payout, at a later block, after a pot was paid out.
C13_Witness ==
    /\ Called("payout") /\ last.pre_drained
    /\ last.ret = "Ok"
    /\ payouts = 2
    /\ paid_out > 0
    /\ last.at > winner_since + init_args.countdown_duration

-----------------------------------------------------------------------------
\* The contract with a clock that keeps advancing and a payout that is
\* called once it can go through.  Block timestamps end at MaxTime, so new
\* and press are taken only while the countdown they start ends by MaxTime.
\* The queries, which write nothing, and the calls of the terminated
\* contract, which run nothing, are left out of the steps.

InitLive == Init /\ block_timestamp + storage.countdown_duration <= MaxTime

PressLive(caller, transferred) ==
    /\ exists
    /\ block_timestamp + storage.countdown_duration <= MaxTime
    /\ Press(caller, transferred)

PayoutLive(caller) == exists /\ Payout(caller)

\* A payout that goes through.
PayoutTaken == \E caller \in Accounts : Payout(caller) /\ exists /\ ~exists'

NextLive ==
    \/ \E caller \in Accounts : \E transferred \in 0..free_balance[caller] :
          PressLive(caller, transferred)
    \/ \E caller \in Accounts : PayoutLive(caller)
    \/ Tick

SpecLive ==
    InitLive /\ [][NextLive]_vars /\ WF_vars(Tick) /\ WF_vars(PayoutTaken)

\* A payout called now would go through.
PayoutEnabled ==
    /\ exists
    /\ \A c \in Accounts :
          payout(storage, c, block_timestamp, balance).ret = "Terminated"

\* A step that is a press returning Ok.
PressAccepted ==
    \E caller \in Accounts : \E transferred \in 0..free_balance[caller] :
        Press(caller, transferred) /\ last'.ret = "Ok"

\* C19: once payout can go through it can until a press is accepted or it
\* is taken; and if from some point on no press is accepted, then, the clock
\* advancing and payout being called, the contract is terminated in the end
\* and the whole pot paid out.
C19_PayoutEventually ==
    /\ [][(PayoutEnabled /\ ~PressAccepted) => (PayoutEnabled' \/ ~exists')]_vars
    /\ (<>[][~PressAccepted]_vars)
          => <>(~exists /\ balance = 0 /\ paid_out = accepted)

\* C19 witness: a pot that was staked has been paid out after a real
\* countdown and the contract is gone.
C19_Witness ==
    /\ ~exists
    /\ payouts = 1
    /\ accepted > 0
    /\ paid_out = accepted
    /\ balance = 0
    /\ winner # last.pre_storage.last_press_caller \/ last.op # "new"
    /\ init_args.countdown_duration > 0

=============================================================================
